---- MODULE Spec2Model ----
(***************************************************************************)
(* Model of src/app.py: the patent categorization pipeline.                *)
(*                                                                         *)
(* A Python str is a sequence of one-character strings, so that strip,     *)
(* lower, splitlines, split and the "in" substring test are computed as    *)
(* Python computes them.  A Python dict is a sequence of <<key, value>>    *)
(* pairs in insertion order.                                               *)
(***************************************************************************)
EXTENDS Integers, Sequences, FiniteSets, TLC

VARIABLES
    pc,             \* position in main()
    search_patents, \* text typed in the text_input (app.py:120)
    uploaded_file,  \* the upload (app.py:122)
    patent_numbers, \* app.py:124
    errors,         \* the st.error(...) calls made so far, in order
    results,        \* app.py:142
    idx,            \* 1-based position of the for loop of app.py:146
    all_fields,     \* app.py:144
    export_data,    \* app.py:145
    attempt,        \* loop variable of summarize_patent (app.py:69)
    trace,          \* create(...) and time.sleep(...) calls of the current summarize_patent call
    summary,        \* app.py:149
    parsed,         \* app.py:150
    outcome_log,    \* how summarize_patent ended for each record processed so far
    parsed_log,     \* the FieldMap parsed for each record processed so far
    df_export,      \* app.py:177
    raised          \* the exception that left main(), if any

vars == <<pc, search_patents, uploaded_file, patent_numbers, errors, results, idx,
          all_fields, export_data, attempt, trace, summary, parsed, outcome_log,
          parsed_log, df_export, raised>>

\* ------------------------------------------------------------------ bounds

\* Rows of the patents table.
MaxRecords == 2
\* Longest response text enumerated character by character for the parser.
MaxLen == 4
\* Most lines of a response text composed from LineShapes for the parser.
MaxLines == 4

\* ------------------------------------------------------- Python built-ins

Min(S) == CHOOSE x \in S : \A y \in S : x <= y
Max(S) == CHOOSE x \in S : \A y \in S : x >= y

\* The absent value: None, and the NaN pandas puts in a missing cell.
None == <<"None">>
NaN == <<"NaN">>

UpperLetters == <<"A","B","C","D","E","F","G","H","I","J","K","L","M",
                  "N","O","P","Q","R","S","T","U","V","W","X","Y","Z">>
LowerLetters == <<"a","b","c","d","e","f","g","h","i","j","k","l","m",
                  "n","o","p","q","r","s","t","u","v","w","x","y","z">>

LowerChar(c) ==
    IF \E i \in 1..26 : UpperLetters[i] = c
    THEN LowerLetters[CHOOSE i \in 1..26 : UpperLetters[i] = c]
    ELSE c

\* str.lower()
Lower(s) == [i \in 1..Len(s) |-> LowerChar(s[i])]

\* sub in s
Contains(s, sub) ==
    \E i \in 0..(Len(s) - Len(sub)) : SubSeq(s, i + 1, i + Len(sub)) = sub

\* The characters str.strip() removes (those of the model's alphabet).
IsSpace(c) == c \in {" ", "\t", "\n", "\r"}

RECURSIVE LStrip(_)
LStrip(s) == IF s # <<>> /\ IsSpace(Head(s)) THEN LStrip(Tail(s)) ELSE s

RECURSIVE RStrip(_)
RStrip(s) ==
    IF s # <<>> /\ IsSpace(s[Len(s)]) THEN RStrip(SubSeq(s, 1, Len(s) - 1)) ELSE s

\* str.strip()
Strip(s) == RStrip(LStrip(s))

\* The line boundaries of str.splitlines() (those of the model's alphabet).
IsLineBreak(c) == c \in {"\n", "\r"}

\* str.splitlines(): "\r\n" is one boundary; no empty last line.
RECURSIVE splitlines(_)
splitlines(s) ==
    IF s = <<>> THEN <<>>
    ELSE LET brk == {j \in 1..Len(s) : IsLineBreak(s[j])}
             eol == IF brk = {} THEN Len(s) + 1 ELSE Min(brk)
             nxt == IF eol > Len(s) THEN eol
                    ELSE IF s[eol] = "\r" /\ eol + 1 <= Len(s) /\ s[eol + 1] = "\n"
                         THEN eol + 2
                         ELSE eol + 1
         IN  <<SubSeq(s, 1, eol - 1)>> \o splitlines(SubSeq(s, nxt, Len(s)))

\* line.split(sep, 1) for a line that contains sep: <<before, after>>.
SplitOnce(line, sep) ==
    LET i == Min({j \in 1..Len(line) : line[j] = sep})
    IN  <<SubSeq(line, 1, i - 1), SubSeq(line, i + 1, Len(line))>>

\* dict operations on a sequence of <<key, value>> pairs.
DictHas(d, k) == \E i \in 1..Len(d) : d[i][1] = k
DictGet(d, k) == d[CHOOSE i \in 1..Len(d) : d[i][1] = k][2]
DictKeys(d) == [i \in 1..Len(d) |-> d[i][1]]

\* A plausible slip: the first value of a repeated key is kept.
DictSetKeepFirst(d, k, v) == IF DictHas(d, k) THEN d ELSE Append(d, <<k, v>>)
\* d[k] = v: a present key keeps its position and takes the new value.
DictSet(d, k, v) ==
    IF DictHas(d, k)
    THEN [i \in 1..Len(d) |-> IF d[i][1] = k THEN <<k, v>> ELSE d[i]]
    ELSE Append(d, <<k, v>>)

\* d.update(e)
RECURSIVE DictUpdate(_, _)
DictUpdate(d, e) ==
    IF e = <<>> THEN d
    ELSE DictUpdate(DictSet(d, Head(e)[1], Head(e)[2]), Tail(e))

\* ------------------------------------------------------ parse_dynamic_summary

RECURSIVE ParseLines(_, _)
ParseLines(lines, acc) ==
    IF lines = <<>> THEN acc
    ELSE LET line == Head(lines)
         IN  IF Contains(line, <<":">>)
             THEN LET kv == SplitOnce(line, ":")
                  IN  ParseLines(Tail(lines), DictSet(acc, Strip(kv[1]), Strip(kv[2])))
             ELSE ParseLines(Tail(lines), acc)

parse_dynamic_summary(s) == ParseLines(splitlines(s), <<>>)

\* ------------------------------------------------------------ environment

DigitChar == <<"1", "2", "3", "4", "5", "6", "7", "8", "9">>

\* The Patent_Number of row i of the patents table.
RecNumber(i) == <<DigitChar[i]>>

\* The patents table (app.py:27-29), MaxRecords rows.
DB ==
    [i \in 1..MaxRecords |->
        [Patent_Number |-> RecNumber(i),
         Title         |-> <<"t", DigitChar[i]>>,
         Abstract      |-> <<"a", DigitChar[i]>>,
         Claims        |-> <<"c">>,
         Description   |-> <<"d">>]]

\* "1, 2, ..., n"
RECURSIVE JoinNumbers(_)
JoinNumbers(n) ==
    IF n = 0 THEN <<>>
    ELSE IF n = 1 THEN RecNumber(1)
    ELSE JoinNumbers(n - 1) \o <<",", " ">> \o RecNumber(n)

\* What the user may type: nothing, every number, or the last number followed
\* by empty pieces and a number no row has.
SearchInputs ==
    {<<>>,
     JoinNumbers(MaxRecords),
     <<" ">> \o RecNumber(MaxRecords) \o <<",", ",", " ", "9", " ", ",">>}

StrHeader(text) == [type |-> "str", text |-> text]
IntHeader == [type |-> "int", text |-> <<>>]

NoFile == [kind |-> "none", columns |-> <<>>]
\* pd.read_excel raises on it.
UnreadableFile == [kind |-> "unreadable", columns |-> <<>>]
\* A column "Patent No." with the first number and an empty cell.
GoodFile ==
    [kind |-> "table",
     columns |-> <<[header |-> StrHeader(<<"P","a","t","e","n","t"," ","N","o",".">>),
                    cells |-> <<RecNumber(1), NaN>>]>>]
\* The column is the second one and its header is in capitals.
UpperFile ==
    [kind |-> "table",
     columns |-> <<[header |-> StrHeader(<<"T","i","t","l","e">>), cells |-> <<<<"x">>>>],
                   [header |-> StrHeader(<<"P","A","T","E","N","T"," ","N","O">>),
                    cells |-> <<RecNumber(MaxRecords)>>]>>]
\* No header contains 'patent no'.
NoColumnFile ==
    [kind |-> "table",
     columns |-> <<[header |-> StrHeader(<<"P","a","t","e","n","t">>),
                    cells |-> <<RecNumber(1)>>]>>]
\* A header that is a number: c.lower() raises AttributeError.
IntHeaderFile ==
    [kind |-> "table",
     columns |-> <<[header |-> IntHeader, cells |-> <<RecNumber(1)>>],
                   [header |-> StrHeader(<<"P","a","t","e","n","t"," ","N","o",".">>),
                    cells |-> <<RecNumber(1)>>]>>]

Uploads == {NoFile, UnreadableFile, GoodFile, UpperFile, NoColumnFile, IntHeaderFile}

\* The uploads with no usable 'patent no' column, or that cannot be read.
MalformedUploads == {UnreadableFile, NoColumnFile, IntHeaderFile}

\* Texts of the exceptions client.chat.completions.create may raise.
RateLimitLower == <<"4","2","9"," ","r","a","t","e","_","l","i","m","i","t">>
RateLimitMixed == <<"R","a","t","e","_","L","i","m","i","t">>
TimeoutText == <<"t","i","m","e","o","u","t">>
\* response.choices[0].message.content is None: .strip() raises (app.py:78)
NoneTypeText == <<"N","o","n","e","T","y","p","e">>

RateLimitMessages == {RateLimitLower, RateLimitMixed}
OtherMessages == {TimeoutText, NoneTypeText}
ErrorMessages == RateLimitMessages \cup OtherMessages

\* Texts the completion may return.
RespAB == <<"A", ":", " ", "1", "\n", "B", ":", " ", "2">>
RespBC == <<"\n", "B", ":", "3", "\n", "C", ":", "4", " ">>
RespTitle == <<"T", "i", "t", "l", "e", ":", " ", "x">>
RespNoColon == <<"n", "/", "a">>
RespEmpty == <<>>

Responses == {RespAB, RespBC, RespTitle, RespNoColon, RespEmpty}

\* ------------------------------------------------------ identifier collection

\* s.split(sep)
RECURSIVE Split(_, _)
Split(s, sep) ==
    IF \A j \in 1..Len(s) : s[j] # sep THEN <<s>>
    ELSE LET kv == SplitOnce(s, sep) IN <<kv[1]>> \o Split(kv[2], sep)

\* app.py:126-127
ManualNumbers(text) ==
    IF text = <<>> THEN <<>>
    ELSE LET parts == Split(text, ",")
             strippedParts == [i \in 1..Len(parts) |-> Strip(parts[i])]
         IN  SelectSeq(strippedParts, LAMBDA n : n # <<>>)

PatentNo == <<"p","a","t","e","n","t"," ","n","o">>

\* app.py:132
ColCandidates(columns) ==
    SelectSeq(columns, LAMBDA c : Contains(Lower(c.header.text), PatentNo))

\* df[col].dropna().astype(str).tolist() of a column of text cells
ColumnNumbers(col) == SelectSeq(col.cells, LAMBDA v : v # NaN)

\* A plausible slip: reading the file fails and the manual numbers are lost.
UploadNumbersDropManual(file, numbers) ==
    IF file.kind = "none" THEN [numbers |-> numbers, errors |-> <<>>]
    ELSE IF file.kind = "unreadable"
              \/ \E i \in 1..Len(file.columns) : file.columns[i].header.type # "str"
    THEN [numbers |-> <<>>, errors |-> <<"read_failed">>]
    ELSE IF ColCandidates(file.columns) # <<>>
    THEN [numbers |-> numbers \o ColumnNumbers(ColCandidates(file.columns)[1]),
          errors |-> <<>>]
    ELSE [numbers |-> <<>>, errors |-> <<"no_patent_no_column">>]

\* app.py:129-139: the numbers after the upload was read, and the errors shown.
UploadNumbers(file, numbers) ==
    IF file.kind = "none" THEN [numbers |-> numbers, errors |-> <<>>]
    ELSE IF file.kind = "unreadable"
              \/ \E i \in 1..Len(file.columns) : file.columns[i].header.type # "str"
    THEN [numbers |-> numbers, errors |-> <<"read_failed">>]
    ELSE IF ColCandidates(file.columns) # <<>>
    THEN [numbers |-> numbers \o ColumnNumbers(ColCandidates(file.columns)[1]),
          errors |-> <<>>]
    ELSE [numbers |-> numbers, errors |-> <<"no_patent_no_column">>]

\* app.py:21-44: the rows whose Patent_Number is among the numbers, in table order.
get_patents_by_numbers(numbers) ==
    SelectSeq(DB, LAMBDA r : \E j \in 1..Len(numbers) : numbers[j] = r.Patent_Number)

\* ------------------------------------------------------------ summarize_patent

\* range(5), app.py:69
MaxAttempts == 5

RateLimitToken == <<"r","a","t","e","_","l","i","m","i","t">>

\* app.py:80: "rate_limit" in str(e).lower()
Retryable(text) == Contains(Lower(text), RateLimitToken)

\* A plausible slip: 2 * attempt.
WaitTimeLinear(att) == 2 * att

\* app.py:81
WaitTime(att) == 2 ^ att

CreateEvent(kind, text) == [ev |-> "create", kind |-> kind, text |-> text, secs |-> 0]
SleepEvent(secs) == [ev |-> "sleep", kind |-> "-", text |-> <<>>, secs |-> secs]

\* A plausible slip: every exception is retried.
HandlerRetryAll(text, att) == <<SleepEvent(WaitTime(att))>>

\* app.py:79-85: what the except clause does with an exception whose text is
\* text, raised in attempt att: the sleep it performs, or nothing when it
\* re-raises.
Handler(text, att) ==
    IF Retryable(text) THEN <<SleepEvent(WaitTime(att))>> ELSE <<>>

\* A plausible slip: range(6).
LoopEndsLate(att) == att >= MaxAttempts + 1

\* app.py:69: the for loop is over once attempt has run through range(5).
LoopEnds(att) == att >= MaxAttempts

\* ------------------------------------------------------------------ export

PatentNumberCol == <<"P","a","t","e","n","t"," ","N","u","m","b","e","r">>
TitleCol == <<"T","i","t","l","e">>
AbstractCol == <<"A","b","s","t","r","a","c","t">>

\* app.py:174
FixedColumns == <<PatentNumberCol, TitleCol, AbstractCol>>

\* A plausible slip: a field is appended each time it is seen.
AddFieldsNoCheck(fields, fieldMap) == fields \o DictKeys(fieldMap)

\* app.py:154-157
RECURSIVE AddFields(_, _)
AddFields(fields, fieldMap) ==
    IF fieldMap = <<>> THEN fields
    ELSE LET k == Head(fieldMap)[1]
         IN  AddFields(IF \E i \in 1..Len(fields) : fields[i] = k
                       THEN fields ELSE Append(fields, k),
                       Tail(fieldMap))

\* app.py:164-169
RowData(patent, fieldMap) ==
    DictUpdate(<<<<PatentNumberCol, patent.Patent_Number>>,
                 <<TitleCol, patent.Title>>,
                 <<AbstractCol, patent.Abstract>>>>,
               fieldMap)

\* The columns of pd.DataFrame(data): every key, in first-seen order.
RECURSIVE FrameColumns(_, _)
FrameColumns(data, acc) ==
    IF data = <<>> THEN acc
    ELSE FrameColumns(Tail(data), AddFields(acc, Head(data)))

\* The cell of a row of pd.DataFrame(data): NaN where the dict has no such key.
Cell(row, col) == IF DictHas(row, col) THEN DictGet(row, col) ELSE NaN

\* app.py:174-177: the frame, its columns reordered.
Export(data, fields) ==
    LET ordered_columns == FixedColumns \o fields
        frame == FrameColumns(data, <<>>)
        cols == SelectSeq(ordered_columns,
                          LAMBDA c : \E i \in 1..Len(frame) : frame[i] = c)
    IN  [columns |-> cols,
         rows |-> [r \in 1..Len(data) |-> [j \in 1..Len(cols) |-> Cell(data[r], cols[j])]]]

NoExport == [columns |-> <<>>, rows |-> <<>>]

\* -------------------------------------------------------------------- main

Init ==
    /\ pc = "start"
    /\ search_patents \in SearchInputs
    /\ uploaded_file \in Uploads
    /\ patent_numbers = <<>>
    /\ errors = <<>>
    /\ results = <<>>
    /\ idx = 0
    /\ all_fields = <<>>
    /\ export_data = <<>>
    /\ attempt = 0
    /\ trace = <<>>
    /\ summary = <<>>
    /\ parsed = <<>>
    /\ outcome_log = <<>>
    /\ parsed_log = <<>>
    /\ df_export = NoExport
    /\ raised = None

\* app.py:124-139
CollectIdentifiers ==
    /\ pc = "start"
    /\ LET got == UploadNumbers(uploaded_file, ManualNumbers(search_patents))
       IN  /\ patent_numbers' = got.numbers
           /\ errors' = errors \o got.errors
    /\ pc' = "collected"
    /\ UNCHANGED <<search_patents, uploaded_file, results, idx, all_fields, export_data,
                   attempt, trace, summary, parsed, outcome_log, parsed_log, df_export,
                   raised>>

\* app.py:141-145 and 189-190
Lookup ==
    /\ pc = "collected"
    /\ IF patent_numbers = <<>>
       THEN /\ pc' = "done"
            /\ UNCHANGED <<results, errors, idx>>
       ELSE LET found == get_patents_by_numbers(patent_numbers)
            IN  /\ results' = found
                /\ IF found = <<>>
                   THEN /\ errors' = Append(errors, "not_found")
                        /\ pc' = "done"
                        /\ UNCHANGED idx
                   ELSE /\ idx' = 1
                        /\ pc' = "loop"
                        /\ UNCHANGED errors
    /\ all_fields' = <<>>
    /\ export_data' = <<>>
    /\ UNCHANGED <<search_patents, uploaded_file, patent_numbers, attempt, trace, summary,
                   parsed, outcome_log, parsed_log, df_export, raised>>

\* app.py:146-149 and 66-69: the next record; summarize_patent is entered.
StartRecord ==
    /\ pc = "loop"
    /\ idx <= Len(results)
    /\ attempt' = 0
    /\ trace' = <<>>
    /\ pc' = "summarize"
    /\ UNCHANGED <<search_patents, uploaded_file, patent_numbers, errors, results, idx,
                   all_fields, export_data, summary, parsed, outcome_log, parsed_log,
                   df_export, raised>>

\* app.py:71-78 and 149: the completion answers with content; summarize_patent returns.
AttemptSucceeds(content) ==
    /\ pc = "summarize"
    /\ ~LoopEnds(attempt)
    /\ trace' = Append(trace, CreateEvent("ok", content))
    /\ summary' = Strip(content)
    /\ outcome_log' = Append(outcome_log, "success")
    /\ pc' = "addrow"
    /\ UNCHANGED <<search_patents, uploaded_file, patent_numbers, errors, results, idx,
                   all_fields, export_data, attempt, parsed, parsed_log, df_export, raised>>

\* app.py:71-87: the attempt raises an exception whose text is text.  A sleep is
\* followed by the next turn of the loop, and after the last turn by
\* st.error and return "".
AttemptRaises(text) ==
    /\ pc = "summarize"
    /\ ~LoopEnds(attempt)
    /\ LET slept == Handler(text, attempt)
       IN  /\ trace' = Append(trace, CreateEvent("exc", text)) \o slept
           /\ IF slept = <<>>
              THEN /\ raised' = text
                   /\ outcome_log' = Append(outcome_log, "raised")
                   /\ pc' = "raised"
                   /\ UNCHANGED <<attempt, errors, summary>>
              ELSE /\ attempt' = attempt + 1
                   /\ IF LoopEnds(attempt + 1)
                      THEN /\ errors' = Append(errors, "max_retries")
                           /\ summary' = <<>>
                           /\ outcome_log' = Append(outcome_log, "exhausted")
                           /\ pc' = "addrow"
                      ELSE UNCHANGED <<errors, summary, outcome_log, pc>>
                   /\ UNCHANGED raised
    /\ UNCHANGED <<search_patents, uploaded_file, patent_numbers, results, idx, all_fields,
                   export_data, parsed, parsed_log, df_export>>

\* app.py:150-170
AddRow ==
    /\ pc = "addrow"
    /\ LET fieldMap == parse_dynamic_summary(summary)
       IN  /\ parsed' = fieldMap
           /\ parsed_log' = Append(parsed_log, fieldMap)
           /\ all_fields' = AddFields(all_fields, fieldMap)
           /\ export_data' = Append(export_data, RowData(results[idx], fieldMap))
    /\ idx' = idx + 1
    /\ pc' = "loop"
    /\ UNCHANGED <<search_patents, uploaded_file, patent_numbers, errors, results, attempt,
                   trace, summary, outcome_log, df_export, raised>>

\* app.py:172-177
Finalize ==
    /\ pc = "loop"
    /\ idx > Len(results)
    /\ export_data # <<>>
    /\ df_export' = Export(export_data, all_fields)
    /\ pc' = "done"
    /\ UNCHANGED <<search_patents, uploaded_file, patent_numbers, errors, results, idx,
                   all_fields, export_data, attempt, trace, summary, parsed, outcome_log,
                   parsed_log, raised>>

Next ==
    \/ CollectIdentifiers
    \/ Lookup
    \/ StartRecord
    \/ \E content \in Responses : AttemptSucceeds(content)
    \/ \E text \in ErrorMessages : AttemptRaises(text)
    \/ AddRow
    \/ Finalize

Spec == Init /\ [][Next]_vars

\* ------------------------------------------- parse_dynamic_summary on its own

ParseAlphabet == {"a", ":", " ", "\n", "\r"}

\* "a:x", "a:y", "b:z", "gg", " a : y ", "a:x:y"
LineShapes ==
    {<<"a", ":", "x">>, <<"a", ":", "y">>, <<"b", ":", "z">>, <<"g", "g">>,
     <<" ", "a", " ", ":", " ", "y", " ">>, <<"a", ":", "x", ":", "y">>}

RECURSIVE JoinLines(_)
JoinLines(lines) ==
    IF lines = <<>> THEN <<>>
    ELSE IF Len(lines) = 1 THEN lines[1]
    ELSE Head(lines) \o <<"\n">> \o JoinLines(Tail(lines))

\* Every text of at most MaxLen characters, and every text of at most MaxLines
\* lines taken from LineShapes.
ParseInputs ==
    (UNION {[1..n -> ParseAlphabet] : n \in 0..MaxLen})
    \cup {JoinLines(ls) : ls \in UNION {[1..n -> LineShapes] : n \in 1..MaxLines}}

ParseInit ==
    /\ pc = "parse"
    /\ summary \in ParseInputs
    /\ search_patents = <<>>
    /\ uploaded_file = NoFile
    /\ patent_numbers = <<>>
    /\ errors = <<>>
    /\ results = <<>>
    /\ idx = 0
    /\ all_fields = <<>>
    /\ export_data = <<>>
    /\ attempt = 0
    /\ trace = <<>>
    /\ parsed = <<>>
    /\ outcome_log = <<>>
    /\ parsed_log = <<>>
    /\ df_export = NoExport
    /\ raised = None

\* app.py:150: parsed = parse_dynamic_summary(summary)
ParseCall ==
    /\ pc = "parse"
    /\ parsed' = parse_dynamic_summary(summary)
    /\ pc' = "parsed"
    /\ UNCHANGED <<search_patents, uploaded_file, patent_numbers, errors, results, idx,
                   all_fields, export_data, attempt, trace, summary, outcome_log,
                   parsed_log, df_export, raised>>

ParseNext == ParseCall

SpecParse == ParseInit /\ [][ParseNext]_vars

\* ------------------------------------------------------------------ claims

Last(s) == s[Len(s)]

\* The create(...) calls and the sleeps of a trace.
Creates(t) == SelectSeq(t, LAMBDA e : e.ev = "create")
Sleeps(t) == SelectSeq(t, LAMBDA e : e.ev = "sleep")

RECURSIVE TotalWait(_)
TotalWait(t) == IF t = <<>> THEN 0 ELSE Head(t).secs + TotalWait(Tail(t))

\* 2^0 + ... + 2^(k-1)
RECURSIVE SumPow(_)
SumPow(k) == IF k = 0 THEN 0 ELSE SumPow(k - 1) + 2 ^ (k - 1)

\* Every attempt of the current call failed with a transient rate-limit error.
AllRateLimited ==
    /\ trace # <<>>
    /\ \A i \in 1..Len(trace) :
          trace[i].ev = "create"
             => trace[i].kind = "exc" /\ trace[i].text \in RateLimitMessages

\* The text without its leading and trailing whitespace, stated by positions.
RefTrim(s) ==
    LET ns == {i \in 1..Len(s) : ~IsSpace(s[i])}
    IN  IF ns = {} THEN <<>> ELSE SubSeq(s, Min(ns), Max(ns))

\* C1: when every attempt fails with a transient rate-limit error the call
\* makes exactly 5 attempts and then returns the empty summary (retries
\* exhausted) instead of raising; no call ever makes more than 5 attempts.
C1_ExhaustedAfterFiveAttempts ==
    /\ Len(Creates(trace)) <= 5
    /\ AllRateLimited =>
          IF pc = "summarize"
          THEN Len(Creates(trace)) < 5
          ELSE /\ Len(Creates(trace)) = 5
               /\ pc # "raised"
               /\ raised = None
               /\ summary = <<>>
               /\ Last(outcome_log) = "exhausted"
               /\ Last(errors) = "max_retries"

C1_Witness ==
    /\ pc = "addrow"
    /\ AllRateLimited
    /\ Len(Creates(trace)) = 5
    /\ summary = <<>>
    /\ Last(outcome_log) = "exhausted"

\* C3: an attempt that fails with an error that is not a transient rate-limit
\* error is the last thing the call does: no attempt and no sleep follows it,
\* the exception leaves the call, and no summary or row is produced for it.
C3_OtherErrorPropagates ==
    \A i \in 1..Len(trace) :
        (trace[i].ev = "create" /\ trace[i].kind = "exc"
            /\ trace[i].text \in OtherMessages)
        => /\ i = Len(trace)
           /\ pc = "raised"
           /\ raised = trace[i].text
           /\ Last(outcome_log) = "raised"
           /\ Len(export_data) = Len(outcome_log) - 1

C3_Witness ==
    /\ pc = "raised"
    /\ Len(Creates(trace)) = 3
    /\ Len(Sleeps(trace)) = 2
    /\ Last(trace).text = TimeoutText
    /\ raised = TimeoutText

\* C4: when the first k attempts (0 <= k <= 4) fail with a transient
\* rate-limit error and attempt k+1 succeeds, the call returns the text of
\* that completion (stripped, as summarize_patent returns it) and the sleeps
\* add up to 2^0 + ... + 2^(k-1); for k = 4 that is 15.
C4_BackoffSum ==
    (trace # <<>> /\ Last(trace).ev = "create" /\ Last(trace).kind = "ok")
    => LET k == Len(Creates(trace)) - 1
       IN  /\ k \in 0..4
           /\ Len(Sleeps(trace)) = k
           /\ TotalWait(trace) = SumPow(k)
           /\ (k = 4 => TotalWait(trace) = 15)
           /\ pc # "summarize"
           /\ pc # "raised"
           /\ summary = RefTrim(Last(trace).text)
           /\ Last(outcome_log) = "success"

C4_Witness ==
    /\ pc = "addrow"
    /\ Len(Creates(trace)) = 5
    /\ Last(trace).kind = "ok"
    /\ Last(trace).text = RespBC
    /\ TotalWait(trace) = 15
    /\ summary = <<"B", ":", "3", "\n", "C", ":", "4">>

\* C10: sleeps occur only between attempts: once the call has ended every
\* sleep of its trace is followed by a further attempt, and a call that
\* exhausted its retries slept exactly 4 times.
C10_SleepsOnlyBetweenAttempts ==
    (pc # "summarize" /\ trace # <<>>)
    => /\ \A i \in 1..Len(trace) :
             trace[i].ev = "sleep" => (i < Len(trace) /\ trace[i + 1].ev = "create")
       /\ (AllRateLimited => Len(Sleeps(trace)) = 4)

\* The export has been built.
Finalized == pc = "done" /\ df_export # NoExport

IsEmptyCell(c) == c = NaN \/ c = <<>>

\* The k-th smallest element of a set of numbers.
NthSmallest(S, k) == CHOOSE x \in S : Cardinality({y \in S : y < x}) = k - 1

\* A sequence without its repetitions: each element stays where it first stood.
FirstOccurrences(s) ==
    LET keep == {i \in 1..Len(s) : \A j \in 1..(i - 1) : s[j] # s[i]}
    IN  [n \in 1..Cardinality(keep) |-> s[NthSmallest(keep, n)]]

\* The keys of all the FieldMaps parsed so far, one after the other.
RECURSIVE AllKeys(_)
AllKeys(maps) == IF maps = <<>> THEN <<>> ELSE DictKeys(Head(maps)) \o AllKeys(Tail(maps))

\* C2: with every record's completion ending in success or in exhausted
\* retries no exception leaves the batch, every record is processed, and the
\* export has one row per record, in processing order, in which the row of a
\* record whose retries were exhausted has every dynamic cell empty.
C2_BatchSurvivesExhaustion ==
    /\ (\A i \in 1..Len(outcome_log) : outcome_log[i] \in {"success", "exhausted"})
          => pc # "raised" /\ raised = None
    /\ Finalized =>
          /\ Len(outcome_log) = Len(results)
          /\ Len(df_export.rows) = Len(results)
          /\ \A r \in 1..Len(results) :
                /\ df_export.rows[r][1] = results[r].Patent_Number
                /\ outcome_log[r] = "exhausted"
                      => \A j \in 4..Len(df_export.columns) :
                             IsEmptyCell(df_export.rows[r][j])

\* C5: the columns of the export are identifier, title and abstract followed
\* by the dynamic field names in the order each was first seen over all rows.
C5_ColumnOrder ==
    Finalized =>
        /\ df_export.columns = FixedColumns \o FirstOccurrences(AllKeys(parsed_log))
        /\ SubSeq(df_export.columns, 1, 3) = <<PatentNumberCol, TitleCol, AbstractCol>>

C5_Witness ==
    /\ Finalized
    /\ Len(parsed_log) >= 2
    /\ DictKeys(parsed_log[1]) = <<<<"A">>, <<"B">>>>
    /\ DictKeys(parsed_log[2]) = <<<<"B">>, <<"C">>>>
    /\ df_export.columns = FixedColumns \o <<<<"A">>, <<"B">>, <<"C">>>>

\* C6: every row of the export has a cell for every column; the cell of a
\* dynamic field the row's record did not produce is empty, and the cell of
\* one it did produce holds the value parsed for that row.
C6_CellsPerRow ==
    Finalized =>
        \A r \in 1..Len(df_export.rows) :
            /\ Len(df_export.rows[r]) = Len(df_export.columns)
            /\ \A j \in 4..Len(df_export.columns) :
                  IF DictHas(parsed_log[r], df_export.columns[j])
                  THEN df_export.rows[r][j] = DictGet(parsed_log[r], df_export.columns[j])
                  ELSE IsEmptyCell(df_export.rows[r][j])

\* C9: the identifier, title and abstract cells of every row hold the values
\* of the record fetched from the store, whatever the FieldMap's labels.
C9_FixedColumnsKept ==
    \A r \in 1..Len(export_data) :
        /\ DictGet(export_data[r], PatentNumberCol) = results[r].Patent_Number
        /\ DictGet(export_data[r], TitleCol) = results[r].Title
        /\ DictGet(export_data[r], AbstractCol) = results[r].Abstract

\* C8: when the upload cannot be read or has no 'patent no' column, the error
\* is shown, the numbers are those typed by hand alone, and they are looked
\* up as without an upload; the run goes on.
C8_MalformedUploadIsolated ==
    (pc # "start" /\ uploaded_file \in MalformedUploads)
    => /\ errors # <<>>
       /\ errors[1] \in {"read_failed", "no_patent_no_column"}
       /\ patent_numbers = ManualNumbers(search_patents)
       /\ pc \notin {"collected"} /\ patent_numbers # <<>>
             => results = get_patents_by_numbers(ManualNumbers(search_patents))
       /\ raised # None => outcome_log # <<>>

C8_Witness ==
    /\ Finalized
    /\ uploaded_file = NoColumnFile
    /\ search_patents = JoinNumbers(MaxRecords)
    /\ errors = <<"no_patent_no_column">>
    /\ Len(df_export.rows) = MaxRecords

\* The lines of a text, stated by the positions at which a line starts.
RefLineStarts(s) ==
    {p \in 1..Len(s) :
        \/ p = 1
        \/ IsLineBreak(s[p - 1]) /\ ~(s[p - 1] = "\r" /\ s[p] = "\n")}

RefLineAt(s, p) ==
    SubSeq(s, p, Min({j \in p..Len(s) : IsLineBreak(s[j])} \cup {Len(s) + 1}) - 1)

RefLines(s) ==
    [n \in 1..Cardinality(RefLineStarts(s)) |->
        RefLineAt(s, NthSmallest(RefLineStarts(s), n))]

\* The position of the first ':' of a line that has one.
RefColon(line) ==
    CHOOSE c \in 1..Len(line) : line[c] = ":" /\ \A j \in 1..(c - 1) : line[j] # ":"

RefLabel(line) == RefTrim(SubSeq(line, 1, RefColon(line) - 1))
RefValue(line) == RefTrim(SubSeq(line, RefColon(line) + 1, Len(line)))

\* The reference FieldMap: the labels in the order of their first occurrence,
\* each with the value of its last occurrence.
RefFieldMap(s) ==
    LET entries == SelectSeq(RefLines(s), LAMBDA l : \E c \in 1..Len(l) : l[c] = ":")
        labels == FirstOccurrences([i \in 1..Len(entries) |-> RefLabel(entries[i])])
        lastOf(k) == Max({i \in 1..Len(entries) : RefLabel(entries[i]) = k})
    IN  [n \in 1..Len(labels) |-> <<labels[n], RefValue(entries[lastOf(labels[n])])>>]

\* C7: the parsed FieldMap equals the reference: lines without ':' ignored,
\* each other line split at its first ':' into trimmed label and value, a
\* repeated label taking its last value at its first position; the empty
\* text gives the empty FieldMap.
C7_ParseMatchesReference ==
    pc = "parsed" =>
        /\ parsed = RefFieldMap(summary)
        /\ summary = <<>> => parsed = <<>>

C7_Witness ==
    /\ pc = "parsed"
    /\ summary = JoinLines(<<<<"a", ":", "x">>, <<"g", "g">>, <<"b", ":", "z">>,
                             <<"a", ":", "y">>>>)
    /\ parsed = <<<<<<"a">>, <<"y">>>>, <<<<"b">>, <<"z">>>>>>

====
